---------------------------- MODULE Spec2Model ----------------------------
(***************************************************************************)
(* A model of simple-proxy's HLS proxy: the manifest rewriter              *)
(* (src/routes/m3u8-proxy.ts, proxyM3U8), the segment cache with its       *)
(* cleanup pass, the prefetcher, and the segment server                    *)
(* (src/routes/ts-proxy.ts).                                               *)
(*                                                                         *)
(* JavaScript runs every handler to its next await without interleaving,   *)
(* so one action of the model is one such run: from a request's arrival,   *)
(* or from the resolution of the fetch it awaits, to the next await or to  *)
(* the return.  Strings are TLA+ strings and the string functions of the   *)
(* code (startsWith, includes, split, join, trim, replace, the URL regex,  *)
(* encodeURIComponent) are computed character by character.                *)
(***************************************************************************)
EXTENDS Integers, Sequences, FiniteSets, TLC

(***************************************************************************)
(* Bounds of the model.                                                    *)
(***************************************************************************)
\* The clock runs from 0 to MaxTime.
MaxTime == 3
\* At most MaxInflight prefetch fetches are awaited at the same time.
MaxInflight == 2
\* At most MaxPending requests await their origin fetch at the same time
\* (and no two of them are the same request).
MaxPending == 1
\* A manifest of the rewriter's specification has at most MaxLines lines.
MaxLines == 3

(***************************************************************************)
(* Program constants.  The cache's capacity and the time to live are       *)
(* scaled down (2000 entries to 1, two hours to 2 ticks of the clock) so   *)
(* that a bounded run fills the cache and lets entries expire; the code    *)
(* compares them the same way whatever their values.                       *)
(***************************************************************************)
CACHE_MAX_SIZE == 1
CACHE_EXPIRY_MS == 2

(***************************************************************************)
(* Strings.                                                                *)
(***************************************************************************)
\* s.substring(i) with i counted from 1: the characters of s from the i-th.
substringFrom(s, i) == IF i > Len(s) THEN "" ELSE SubSeq(s, i, Len(s))

\* s.substring(0, n): the first n characters of s.
substringTo(s, n) == IF n <= 0 THEN "" ELSE SubSeq(s, 1, n)

\* s.startsWith(p), at position i (counted from 1).
startsWithAt(s, p, i) ==
    /\ i + Len(p) - 1 <= Len(s)
    /\ (Len(p) = 0 \/ SubSeq(s, i, i + Len(p) - 1) = p)

startsWith(s, p) == startsWithAt(s, p, 1)

\* The first position from i where p occurs in s; 0 when there is none.
indexOfFrom(s, p, i) ==
    LET found == {j \in i..(Len(s) - Len(p) + 1) : startsWithAt(s, p, j)}
    IN  IF found = {} THEN 0
        ELSE CHOOSE j \in found : \A k \in found : j <= k

\* s.indexOf(p), counted from 1; 0 when p does not occur in s.
indexOf(s, p) == indexOfFrom(s, p, 1)

includes(s, p) == indexOf(s, p) # 0

RECURSIVE split(_, _)
\* s.split(sep) for a non-empty separator.
split(s, sep) ==
    LET i == indexOf(s, sep)
    IN  IF i = 0
        THEN <<s>>
        ELSE <<substringTo(s, i - 1)>> \o split(substringFrom(s, i + Len(sep)), sep)

RECURSIVE join(_, _)
\* lines.join(sep)
join(lines, sep) ==
    IF Len(lines) = 0 THEN ""
    ELSE IF Len(lines) = 1 THEN lines[1]
    ELSE lines[1] \o sep \o join(Tail(lines), sep)

\* The characters String.prototype.trim and the regex class \s remove.
WhiteSpace == {" ", "\t", "\n", "\r", "\f"}

RECURSIVE trimStart(_)
trimStart(s) ==
    IF Len(s) > 0 /\ Head(s) \in WhiteSpace THEN trimStart(Tail(s)) ELSE s

RECURSIVE trimEnd(_)
trimEnd(s) ==
    IF Len(s) > 0 /\ SubSeq(s, Len(s), Len(s)) \in WhiteSpace
    THEN trimEnd(substringTo(s, Len(s) - 1))
    ELSE s

trim(s) == trimEnd(trimStart(s))

\* s.replace(pat, rep) with a string pattern: the first occurrence only.
replace(s, pat, rep) ==
    LET i == indexOf(s, pat)
    IN  IF i = 0 THEN s
        ELSE substringTo(s, i - 1) \o rep \o substringFrom(s, i + Len(pat))

\* The value the code reads as "no match" (regex.exec(line)?.[0] undefined),
\* "no entry" (Map.get undefined), or a missing query parameter.
Undefined == "undefined"

RECURSIVE urlRunLength(_, _)
\* The length of the longest run of characters matching [^\""\s] from s's i-th.
urlRunLength(s, i) ==
    IF i > Len(s) \/ SubSeq(s, i, i) \in (WhiteSpace \cup {"\""})
    THEN 0
    ELSE 1 + urlRunLength(s, i + 1)

RECURSIVE execUrlRegexFrom(_, _)
\* The match of /https?:\/\/[^\""\s]+/ that starts first at or after line's
\* i-th character, greedy; Undefined when there is none.
execUrlRegexFrom(line, i) ==
    IF i > Len(line) THEN Undefined
    ELSE LET prefix == IF startsWithAt(line, "https://", i) THEN 8
                       ELSE IF startsWithAt(line, "http://", i) THEN 7
                       ELSE 0
             run == IF prefix = 0 THEN 0 ELSE urlRunLength(line, i + prefix)
         IN  IF run > 0 THEN SubSeq(line, i, i + prefix + run - 1)
             ELSE execUrlRegexFrom(line, i + 1)

\* /https?:\/\/[^\""\s]+/g.exec(line)?.[0]
execUrlRegex(line) == execUrlRegexFrom(line, 1)


(***************************************************************************)
(* encodeURIComponent and JSON.                                            *)
(***************************************************************************)
\* The characters encodeURIComponent leaves as they are.
UnreservedChars ==
    {"A", "B", "C", "D", "E", "F", "G", "H", "I", "J", "K", "L", "M",
     "N", "O", "P", "Q", "R", "S", "T", "U", "V", "W", "X", "Y", "Z",
     "a", "b", "c", "d", "e", "f", "g", "h", "i", "j", "k", "l", "m",
     "n", "o", "p", "q", "r", "s", "t", "u", "v", "w", "x", "y", "z",
     "0", "1", "2", "3", "4", "5", "6", "7", "8", "9",
     "-", "_", ".", "!", "~", "*", "'", "(", ")"}

\* The percent-encoding of an ASCII character that is not unreserved (of
\* those a manifest line, a URL or the headers' JSON of the model may hold).
percentEncode(c) ==
    CASE c = " "  -> "%20" [] c = "\"" -> "%22" [] c = "#" -> "%23"
      [] c = "$"  -> "%24" [] c = "%"  -> "%25" [] c = "&" -> "%26"
      [] c = "+"  -> "%2B" [] c = ","  -> "%2C" [] c = "/" -> "%2F"
      [] c = ":"  -> "%3A" [] c = ";"  -> "%3B" [] c = "<" -> "%3C"
      [] c = "="  -> "%3D" [] c = ">"  -> "%3E" [] c = "?" -> "%3F"
      [] c = "@"  -> "%40" [] c = "["  -> "%5B" [] c = "]" -> "%5D"
      [] c = "{"  -> "%7B" [] c = "|"  -> "%7C" [] c = "}" -> "%7D"
      [] c = "\t" -> "%09" [] c = "\n" -> "%0A" [] c = "\r" -> "%0D"

RECURSIVE encodeFrom(_, _)
\* The encoding of s from its i-th character.
encodeFrom(s, i) ==
    IF i > Len(s) THEN ""
    ELSE LET c == SubSeq(s, i, i)
         IN  (IF c \in UnreservedChars THEN c ELSE percentEncode(c)) \o encodeFrom(s, i + 1)

encodeURIComponent(s) == encodeFrom(s, 1)

\* Whether JSON.parse(text) throws its SyntaxError, for the values of the
\* headers query parameter the model draws.
JSONparseThrows(text) == text \notin {"{}", "{ \"Referer\" : \"https://r/\" }"}

\* JSON.parse(text) where it does not throw.  An object is the sequence of
\* its <<name, value>> members, in their order.
JSONparse(text) ==
    CASE text = "{}" -> << >>
      [] text = "{ \"Referer\" : \"https://r/\" }" -> << <<"Referer", "https://r/">> >>

RECURSIVE stringifyMembers(_)
stringifyMembers(obj) ==
    IF Len(obj) = 0 THEN ""
    ELSE "\"" \o obj[1][1] \o "\":\"" \o obj[1][2] \o "\""
         \o (IF Len(obj) > 1 THEN "," ELSE "") \o stringifyMembers(Tail(obj))

\* JSON.stringify of an object whose values are strings that need no escape.
JSONstringify(obj) == "{" \o stringifyMembers(obj) \o "}"

(***************************************************************************)
(* URLs.                                                                   *)
(***************************************************************************)
\* What new URL(...) throws on input it cannot parse.
TypeError == "TypeError: Invalid URL"

\* The position of the first of the characters "/", "?", "#" in s, or
\* Len(s) + 1: where the authority of "scheme://authority..." ends.
authorityEnd(s) ==
    LET stops == {i \in 1..Len(s) : SubSeq(s, i, i) \in {"/", "?", "#"}}
    IN  IF stops = {} THEN Len(s) + 1
        ELSE CHOOSE i \in stops : \A j \in stops : i <= j

Digits == {"0", "1", "2", "3", "4", "5", "6", "7", "8", "9"}

\* new URL(s).href for s = scheme "//" rest, scheme one of http: and https:,
\* an authority without user name, a port (if any) that is not the scheme's
\* default, a path without dot segments: the host must not be empty, the
\* port must be digits, and an empty path becomes "/".
absoluteHref(scheme, rest) ==
    LET e == authorityEnd(rest)
        authority == substringTo(rest, e - 1)
        tail == substringFrom(rest, e)
        colon == indexOf(authority, ":")
        host == IF colon = 0 THEN authority ELSE substringTo(authority, colon - 1)
        port == IF colon = 0 THEN "" ELSE substringFrom(authority, colon + 1)
    IN  IF host = "" \/ \E i \in 1..Len(port) : SubSeq(port, i, i) \notin Digits
        THEN TypeError
        ELSE scheme \o "//" \o host
             \o (IF port = "" THEN "" ELSE ":" \o port)
             \o (IF startsWith(tail, "/") THEN "" ELSE "/") \o tail

\* The scheme of an absolute http(s) URL, with its colon.
schemeOf(url) == IF startsWith(url, "https://") THEN "https:" ELSE "http:"

\* "scheme://authority" of an absolute http(s) URL.
originOf(url) ==
    LET rest == substringFrom(url, Len(schemeOf(url)) + 3)
    IN  schemeOf(url) \o "//" \o substringTo(rest, authorityEnd(rest) - 1)

\* An absolute http(s) URL up to and including the last "/" of its path.
directoryOf(url) ==
    LET q == {i \in 1..Len(url) : SubSeq(url, i, i) \in {"?", "#"}}
        pathEnd == IF q = {} THEN Len(url)
                   ELSE (CHOOSE i \in q : \A j \in q : i <= j) - 1
        slashes == {i \in 1..pathEnd : SubSeq(url, i, i) = "/"}
    IN  substringTo(url, CHOOSE i \in slashes : \A j \in slashes : j <= i)

\* new URL(input, base).href, for a base that is an absolute http(s) URL and
\* an input that is an http(s) URL, a protocol-relative URL ("//host/..."),
\* an absolute path ("/...") or a relative path without dot segments.  The
\* parser first strips the white space around the input.
newURL(input, base) ==
    LET s == trim(input)
    IN  IF startsWith(s, "https://") THEN absoluteHref("https:", substringFrom(s, 9))
        ELSE IF startsWith(s, "http://") THEN absoluteHref("http:", substringFrom(s, 8))
        ELSE IF startsWith(s, "//") THEN absoluteHref(schemeOf(base), substringFrom(s, 3))
        ELSE IF startsWith(s, "/") THEN originOf(base) \o s
        ELSE directoryOf(base) \o s

\* parseURL(req_url, baseUrl) with a base: every caller passes the manifest's
\* own URL, which is not empty when the call is reached.  The result is the
\* href, or TypeError where new URL throws (parseURL does not catch it).
parseURL(req_url, baseUrl) == newURL(req_url, baseUrl)

(***************************************************************************)
(* The segment cache: a Map from URL to CacheEntry, which keeps the order  *)
(* in which its keys were first set.  It is the sequence of its entries,   *)
(* each [url, data, headers, timestamp], in that order.                    *)
(***************************************************************************)
mapHas(cache, url) == \E i \in 1..Len(cache) : cache[i].url = url

\* segmentCache.get(url), for a url the cache has.
mapGet(cache, url) == cache[CHOOSE i \in 1..Len(cache) : cache[i].url = url]

\* segmentCache.delete(url)
mapDelete(cache, url) == SelectSeq(cache, LAMBDA e : e.url # url)

\* segmentCache.set that leaves the entry of a key the Map has as it is.
mapSetIfAbsent(cache, url, entry) ==
    IF \E i \in 1..Len(cache) : cache[i].url = url
    THEN cache
    ELSE Append(cache, entry)

\* segmentCache.set(url, entry): a key the Map has keeps its place.
mapSet(cache, url, entry) ==
    IF mapHas(cache, url)
    THEN [i \in 1..Len(cache) |-> IF cache[i].url = url THEN entry ELSE cache[i]]
    ELSE Append(cache, entry)

RECURSIVE insertByTimestamp(_, _)
\* e put into the sorted sequence after every entry that is not newer than it.
insertByTimestamp(sorted, e) ==
    IF Len(sorted) = 0 THEN <<e>>
    ELSE IF sorted[1].timestamp <= e.timestamp
         THEN <<sorted[1]>> \o insertByTimestamp(Tail(sorted), e)
         ELSE <<e>> \o sorted

RECURSIVE sortByTimestamp(_)
\* entries.sort((a, b) => a[1].timestamp - b[1].timestamp): ascending, stable.
sortByTimestamp(entries) ==
    IF Len(entries) = 0 THEN << >>
    ELSE insertByTimestamp(sortByTimestamp(SubSeq(entries, 1, Len(entries) - 1)),
                           entries[Len(entries)])

\* isExpired with the age CACHE_EXPIRY_MS itself expired.
isExpiredAtTTL(entry, t) == t - entry.timestamp >= CACHE_EXPIRY_MS

\* now - entry.timestamp > CACHE_EXPIRY_MS
isExpired(entry, t) == t - entry.timestamp > CACHE_EXPIRY_MS

\* cleanupCache that evicts the first entries of the Map, without the sort.
cleanupCacheUnsorted(cache, t) ==
    LET unexpired == SelectSeq(cache, LAMBDA e : ~isExpired(e, t))
        over == Len(unexpired) > CACHE_MAX_SIZE
        kept == IF over
                THEN SubSeq(unexpired, Len(unexpired) - CACHE_MAX_SIZE + 1, Len(unexpired))
                ELSE unexpired
    IN  [cache |-> kept,
         log |-> IF over THEN <<"Cache size limit reached.">> ELSE << >>]

\* cleanupCache() at time t: the cache it leaves and the lines it logs.
cleanupCache(cache, t) ==
    LET unexpired == SelectSeq(cache, LAMBDA e : ~isExpired(e, t))
        expiredCount == Len(cache) - Len(unexpired)
        over == Len(unexpired) > CACHE_MAX_SIZE
        toRemove == IF over
                    THEN SubSeq(sortByTimestamp(unexpired), 1, Len(unexpired) - CACHE_MAX_SIZE)
                    ELSE << >>
        removed == {toRemove[i].url : i \in 1..Len(toRemove)}
        kept == SelectSeq(unexpired, LAMBDA e : e.url \notin removed)
    IN  [cache |-> kept,
         log |-> (IF over
                  THEN <<"Cache size limit reached. Removed " \o ToString(Len(toRemove))
                         \o " oldest entries. Current size: " \o ToString(Len(kept))>>
                  ELSE << >>)
                 \o (IF expiredCount > 0
                     THEN <<"Cleaned up " \o ToString(expiredCount)
                            \o " expired cache entries. Current size: " \o ToString(Len(kept))>>
                     ELSE << >>)]

\* getCachedSegment without the check of the entry's age.
getCachedSegmentStale(cache, url, t, disabled) ==
    IF disabled
    THEN [cache |-> cache, hit |-> FALSE, found |-> "disabled"]
    ELSE IF ~mapHas(cache, url)
    THEN [cache |-> cache, hit |-> FALSE, found |-> "absent"]
    ELSE [cache |-> cache, hit |-> TRUE, found |-> "unexpired",
          entry |-> mapGet(cache, url)]

\* getCachedSegment that refreshes the timestamp of the entry it returns.
getCachedSegmentTouch(cache, url, t, disabled) ==
    IF disabled
    THEN [cache |-> cache, hit |-> FALSE, found |-> "disabled"]
    ELSE IF ~mapHas(cache, url)
    THEN [cache |-> cache, hit |-> FALSE, found |-> "absent"]
    ELSE IF isExpired(mapGet(cache, url), t)
    THEN [cache |-> mapDelete(cache, url), hit |-> FALSE, found |-> "expired"]
    ELSE [cache |-> [i \in 1..Len(cache) |->
                        IF cache[i].url = url
                        THEN [cache[i] EXCEPT !.timestamp = t]
                        ELSE cache[i]],
          hit |-> TRUE, found |-> "unexpired",
          entry |-> mapGet(cache, url)]

\* getCachedSegment(url) at time t: the cache it leaves, the entry it
\* returns (hit) or none (~hit), and what it found.
getCachedSegment(cache, url, t, disabled) ==
    IF disabled
    THEN [cache |-> cache, hit |-> FALSE, found |-> "disabled"]
    ELSE IF ~mapHas(cache, url)
    THEN [cache |-> cache, hit |-> FALSE, found |-> "absent"]
    ELSE IF isExpired(mapGet(cache, url), t)
    THEN [cache |-> mapDelete(cache, url), hit |-> FALSE, found |-> "expired"]
    ELSE [cache |-> cache, hit |-> TRUE, found |-> "unexpired",
          entry |-> mapGet(cache, url)]

(***************************************************************************)
(* The fetches in flight: a bag of URLs (a function from the URLs in it to *)
(* how many times each is in it).                                          *)
(***************************************************************************)
EmptyBag == << >>

bagAdd(bag, e) ==
    IF e \in DOMAIN bag THEN [bag EXCEPT ![e] = @ + 1] ELSE bag @@ (e :> 1)

bagRemove(bag, e) ==
    IF bag[e] > 1 THEN [bag EXCEPT ![e] = @ - 1]
    ELSE [x \in DOMAIN bag \ {e} |-> bag[x]]

RECURSIVE bagSizeOver(_, _)
bagSizeOver(bag, dom) ==
    IF dom = {} THEN 0
    ELSE LET e == CHOOSE x \in dom : TRUE
         IN  bag[e] + bagSizeOver(bag, dom \ {e})

bagSize(bag) == bagSizeOver(bag, DOMAIN bag)

(***************************************************************************)
(* The origin.                                                             *)
(***************************************************************************)
\* The default User-Agent the proxy sends, before the caller's headers.
UserAgent == <<"User-Agent", "Mozilla/5.0 (Windows NT 10.0; Win64; x64; rv:93.0) Gecko/20100101 Firefox/93.0">>

\* { 'User-Agent': ..., ...headers }
originHeaders(headers) == <<UserAgent>> \o headers

\* The body the origin serves for url at time t (its content changes with
\* every tick of the clock, so that two fetches of one URL at different
\* times are told apart).
originBody(url, t) == "bytes of " \o url \o " at " \o ToString(t)

\* The response headers the origin sends with a segment or a key.
originResponseHeaders(url) ==
    IF includes(url, ".ts") THEN << <<"content-type", "video/mp2t">> >> ELSE << >>

(***************************************************************************)
(* The state.                                                              *)
(***************************************************************************)
VARIABLES
    now,            \* Date.now(), in hours
    segmentCache,   \* the Map segmentCache
    inflight,       \* the URLs whose prefetch awaits its fetch
    pending,        \* the requests that await their origin fetch
    cacheDisabled,  \* process.env.DISABLE_CACHE === 'true'
    m3u8Disabled,   \* process.env.DISABLE_M3U8 === 'true'
    last            \* what the last run did: its response, fetches and log

vars == <<now, segmentCache, inflight, pending, cacheDisabled, m3u8Disabled, last>>

\* A run that has done nothing yet: no response (status 0), no fetch, no
\* lookup in the cache, no call of prefetchSegment, nothing logged.
Run(op, url) ==
    [op |-> op, url |-> url, status |-> 0, body |-> "", contentType |-> "",
     cacheControl |-> "", content |-> Undefined, headers |-> << >>,
     fetches |-> << >>, lookup |-> "none", calls |-> << >>, log |-> << >>]

\* sendError(event, createError({statusCode, statusMessage}))
sendError(run, statusCode, statusMessage) ==
    [run EXCEPT !.status = statusCode, !.body = statusMessage]

\* headersParam ? JSON.parse(headersParam) : {} throws
parseHeadersThrows(headersParam) ==
    headersParam # Undefined /\ headersParam # "" /\ JSONparseThrows(headersParam)

\* headersParam ? JSON.parse(headersParam) : {} where it does not throw
parseHeaders(headersParam) ==
    IF headersParam = Undefined \/ headersParam = "" THEN << >>
    ELSE JSONparse(headersParam)

(***************************************************************************)
(* The prefetcher.                                                         *)
(***************************************************************************)
\* prefetchSegment that waits for its fetch and stores the body before it
\* returns.
prefetchSegmentAwaited(m, url, headers, t, disabled) ==
    IF \/ disabled
       \/ /\ mapHas(m.cache, url)
          /\ t - mapGet(m.cache, url).timestamp <= CACHE_EXPIRY_MS
    THEN [m EXCEPT !.run.calls = Append(@, [url |-> url, before |-> m.cache,
                                            after |-> m.cache, fetched |-> FALSE])]
    ELSE [m EXCEPT !.cache = mapSet(m.cache, url,
                                    [url |-> url, data |-> originBody(url, t),
                                     headers |-> originResponseHeaders(url),
                                     timestamp |-> t]),
                   !.run.calls = Append(@, [url |-> url, before |-> m.cache,
                                            after |-> m.cache, fetched |-> FALSE])]

\* prefetchSegment from its lookup of the existing entry to its first
\* await, the fetch: cl is what the capacity check before it has left (the
\* cache, and the lines cleanupCache has logged).
prefetchLookup(m, cl, url, headers, t) ==
    IF mapHas(cl.cache, url) /\ t - mapGet(cl.cache, url).timestamp <= CACHE_EXPIRY_MS
    THEN [cache |-> cl.cache, inflight |-> m.inflight,
          run |-> [m.run EXCEPT
                     !.log = @ \o cl.log,
                     !.calls = Append(@, [url |-> url, before |-> m.cache,
                                          after |-> cl.cache, fetched |-> FALSE])]]
    ELSE [cache |-> cl.cache, inflight |-> bagAdd(m.inflight, url),
          run |-> [m.run EXCEPT
                     !.log = @ \o cl.log,
                     !.calls = Append(@, [url |-> url, before |-> m.cache,
                                          after |-> cl.cache, fetched |-> TRUE]),
                     !.fetches = Append(@, [url |-> url,
                                            headers |-> originHeaders(headers)])]]

\* prefetchSegment without the test of the cache's size before its lookup.
prefetchSegmentUnchecked(m, url, headers, t, disabled) ==
    IF disabled
    THEN [m EXCEPT !.run.calls = Append(@, [url |-> url, before |-> m.cache,
                                            after |-> m.cache, fetched |-> FALSE])]
    ELSE prefetchLookup(m, [cache |-> m.cache, log |-> << >>], url, headers, t)

\* prefetchSegment(url, headers) from its call to its first await, at time
\* t.  m is the state the run works on: the cache, the fetches in flight,
\* and the run's record.  Each call is recorded with the cache it found and
\* the cache it left, and whether it issued its fetch.
prefetchSegment(m, url, headers, t, disabled) ==
    IF disabled
    THEN [m EXCEPT !.run.calls = Append(@, [url |-> url, before |-> m.cache,
                                            after |-> m.cache, fetched |-> FALSE])]
    ELSE prefetchLookup(m,
                        IF Len(m.cache) >= CACHE_MAX_SIZE
                        THEN cleanupCache(m.cache, t)
                        ELSE [cache |-> m.cache, log |-> << >>],
                        url, headers, t)

RECURSIVE prefetchAll(_, _, _, _, _)
\* The calls of prefetchSegment for urls, in their order.
prefetchAll(m, urls, headers, t, disabled) ==
    IF Len(urls) = 0 THEN m
    ELSE prefetchAll(prefetchSegment(m, urls[1], headers, t, disabled),
                     Tail(urls), headers, t, disabled)

(***************************************************************************)
(* The rewriter.  A loop over the lines works on a record: threw (parseURL *)
(* has thrown, and the loop is left), newLines, the key URLs whose         *)
(* prefetch the loop has called, and segmentUrls.                          *)
(***************************************************************************)
\* `${baseProxyUrl}${route}?url=${encodeURIComponent(target)}&headers=${...}`
proxyUrl(baseProxyUrl, route, target, headers) ==
    baseProxyUrl \o route \o "?url=" \o encodeURIComponent(target)
        \o "&headers=" \o encodeURIComponent(JSONstringify(headers))

\* Before the loop.
NoLines == [threw |-> FALSE, newLines |-> << >>, keyUrls |-> << >>, segmentUrls |-> << >>]

\* newLines.push(line)
pushLine(acc, line) == [acc EXCEPT !.newLines = Append(@, line)]

\* A "#EXT-X-KEY:" or "#EXT-X-MEDIA:" line of which the regex has found
\* the URL found (or none): the line is pushed with the URL proxied by
\* route, or as it is.
pushDirective(acc, line, found, baseProxyUrl, route, headers) ==
    IF found # Undefined
    THEN pushLine(acc, replace(line, found, proxyUrl(baseProxyUrl, route, found, headers)))
    ELSE pushLine(acc, line)

\* A URI line that parseURL has resolved to href, or on which it has
\* thrown: the URL of route that proxies href is pushed.
pushUri(acc, href, baseProxyUrl, route, headers) ==
    IF href = TypeError
    THEN [acc EXCEPT !.threw = TRUE]
    ELSE pushLine(acc, proxyUrl(baseProxyUrl, route, href, headers))

\* One line of a master playlist.
masterLine(acc, line, url, headers, baseProxyUrl) ==
    IF startsWith(line, "#")
    THEN IF startsWith(line, "#EXT-X-KEY:")
         THEN pushDirective(acc, line, execUrlRegex(line), baseProxyUrl, "/ts-proxy", headers)
         ELSE IF startsWith(line, "#EXT-X-MEDIA:")
         THEN pushDirective(acc, line, execUrlRegex(line), baseProxyUrl, "/m3u8-proxy", headers)
         ELSE pushLine(acc, line)
    ELSE IF trim(line) # ""
    THEN pushUri(acc, parseURL(line, url), baseProxyUrl, "/m3u8-proxy", headers)
    ELSE pushLine(acc, line)

RECURSIVE rewriteMaster(_, _, _, _, _)
\* The loop over a master playlist's lines.
rewriteMaster(acc, lines, url, headers, baseProxyUrl) ==
    IF Len(lines) = 0 \/ acc.threw THEN acc
    ELSE rewriteMaster(masterLine(acc, lines[1], url, headers, baseProxyUrl),
                       Tail(lines), url, headers, baseProxyUrl)

\* A "#EXT-X-KEY:" line of a media playlist of which the regex has found
\* keyUrl (or none): the line is pushed, and prefetchSegment(keyUrl, ...)
\* is called.
pushKey(acc, line, keyUrl, baseProxyUrl, headers) ==
    IF keyUrl # Undefined
    THEN [acc EXCEPT
            !.newLines = Append(@, replace(line, keyUrl,
                                           proxyUrl(baseProxyUrl, "/ts-proxy", keyUrl, headers))),
            !.keyUrls = Append(@, keyUrl)]
    ELSE pushLine(acc, line)

\* A URI line of a media playlist that parseURL has resolved to segmentUrl,
\* or on which it has thrown.
pushSegment(acc, segmentUrl, baseProxyUrl, headers) ==
    IF segmentUrl = TypeError
    THEN [acc EXCEPT !.threw = TRUE]
    ELSE [acc EXCEPT
            !.segmentUrls = Append(@, segmentUrl),
            !.newLines = Append(@, proxyUrl(baseProxyUrl, "/ts-proxy", segmentUrl, headers))]

\* mediaLine that proxies the line as it stands, without resolving it.
mediaLineUnresolved(acc, line, url, headers, baseProxyUrl) ==
    IF ~startsWith(line, "#") /\ trim(line) # ""
    THEN [acc EXCEPT
            !.segmentUrls = Append(@, line),
            !.newLines = Append(@, proxyUrl(baseProxyUrl, "/ts-proxy", line, headers))]
    ELSE pushLine(acc, line)

\* One line of a media playlist.
mediaLine(acc, line, url, headers, baseProxyUrl) ==
    IF startsWith(line, "#")
    THEN IF startsWith(line, "#EXT-X-KEY:")
         THEN pushKey(acc, line, execUrlRegex(line), baseProxyUrl, headers)
         ELSE pushLine(acc, line)
    ELSE IF trim(line) # ""
    THEN pushSegment(acc, parseURL(line, url), baseProxyUrl, headers)
    ELSE pushLine(acc, line)

RECURSIVE rewriteMedia(_, _, _, _, _)
\* The loop over a media playlist's lines.
rewriteMedia(acc, lines, url, headers, baseProxyUrl) ==
    IF Len(lines) = 0 \/ acc.threw THEN acc
    ELSE rewriteMedia(mediaLine(acc, lines[1], url, headers, baseProxyUrl),
                      Tail(lines), url, headers, baseProxyUrl)

(***************************************************************************)
(* The inputs the model draws.                                             *)
(***************************************************************************)
\* The manifest a player asks for, and the proxy's own address
\* (`${getRequestProtocol(event)}://${getRequestHost(event)}`).
ManifestUrl == "https://o/a/m.m3u8"
BaseProxyUrl == "http://p"

KeyLine == "#EXT-X-KEY:URI=\"https://o/k\""
StreamInfLine == "#EXT-X-STREAM-INF:RESOLUTION=1x1"
BadUriLine == "http://:1/bad.ts"

\* The lines of the manifests: a directive, a key directive with a URL and
\* one without, an alternate-media directive, a variant-stream directive
\* (it holds the resolution marker), a relative URI, an empty line, and a
\* URI new URL cannot parse (its host is empty).
Lines ==
    { "#EXTINF:4,", KeyLine, "#EXT-X-KEY:METHOD=NONE",
      "#EXT-X-MEDIA:URI=\"https://o/a.m3u8\"", StreamInfLine,
      "s1.ts", "", BadUriLine }

\* The manifests the origin serves under the rewriter's specification: every
\* text of at most MaxLines of these lines.
AllManifests ==
    {join(ls, "\n") : ls \in UNION {[1..n -> Lines] : n \in 1..MaxLines}}

\* The manifests the origin serves under the cache's specification: a media
\* playlist with a key and a segment, one with the segment alone, a master
\* playlist, and a media playlist with a key and then a line new URL cannot
\* parse.
Manifests ==
    { KeyLine \o "\ns1.ts",
      "s1.ts",
      StreamInfLine \o "\ns1.ts",
      KeyLine \o "\n" \o BadUriLine }

\* The manifests the origin serves under the burst's specification: media
\* playlists of one segment, of two other segments, and of a key alone, so
\* that four URLs are prefetched.
BurstManifests ==
    { "s1.ts",
      "s2.ts\ns3.ts",
      KeyLine }

\* The values of the url parameter of /m3u8-proxy and of /ts-proxy.
ManifestUrlParams == {Undefined, ManifestUrl}
SegmentUrlParams == {Undefined, "https://o/k", "https://o/a/s1.ts"}

\* The values of the headers parameter: none, JSON objects, and text that
\* is not JSON.  The cache's specification draws the first and the last.
HeaderParams == {Undefined, "{}", "{ \"Referer\" : \"https://r/\" }", "{bad json"}
CacheHeaderParams == {Undefined, "{bad json"}

\* The headers objects these parse to.
HeaderObjects == {parseHeaders(hp) : hp \in {x \in HeaderParams : ~parseHeadersThrows(x)}}

\* How a fetch ends: a success response, a non-success response (404 Not
\* Found stands for them), or a failure of the transport (fetch rejects).
Outcomes == {"ok", "notok", "fail"}

(***************************************************************************)
(* The actions.                                                            *)
(***************************************************************************)
Init ==
    /\ now = 0
    /\ segmentCache = << >>
    /\ inflight = EmptyBag
    /\ pending = {}
    /\ cacheDisabled \in BOOLEAN
    /\ m3u8Disabled \in BOOLEAN
    /\ last = Run("init", "")

\* Time passes.
Tick ==
    /\ now < MaxTime
    /\ now' = now + 1
    /\ last' = Run("tick", "")
    /\ UNCHANGED <<segmentCache, inflight, pending, cacheDisabled, m3u8Disabled>>

\* Janitor whose pass removes the expired entries only.
JanitorExpiredOnly ==
    /\ segmentCache' = SelectSeq(segmentCache, LAMBDA e : ~isExpired(e, now))
    /\ last' = Run("janitor", "")
    /\ UNCHANGED <<now, inflight, pending, cacheDisabled, m3u8Disabled>>

\* setInterval(cleanupCache, 30 * 60 * 1000): the timer fires.
Janitor ==
    LET cl == cleanupCache(segmentCache, now)
    IN  /\ segmentCache' = cl.cache
        /\ last' = [Run("janitor", "") EXCEPT !.log = cl.log]
        /\ UNCHANGED <<now, inflight, pending, cacheDisabled, m3u8Disabled>>

\* A CORS preflight request to either route: handleCors answers it.
Preflight(route) ==
    /\ last' = [Run("preflight", route) EXCEPT !.status = 204]
    /\ UNCHANGED <<now, segmentCache, inflight, pending, cacheDisabled, m3u8Disabled>>

\* digits(n): n written with two digits.
twoDigits(n) == IF n < 10 THEN "0" \o ToString(n) ELSE ToString(n)

\* (num / den).toFixed(2)
toFixed2(num, den) ==
    LET hundredths == (200 * num + den) \div (2 * den)
    IN  ToString(hundredths \div 100) \o "." \o twoDigits(hundredths % 100)

RECURSIVE totalBytes(_)
\* sizes.reduce((sum, size) => sum + size, 0), a byte for each character
totalBytes(cache) ==
    IF Len(cache) = 0 THEN 0 ELSE Len(cache[1].data) + totalBytes(Tail(cache))

\* getCacheStats()
getCacheStats(cache) ==
    [entries |-> Len(cache),
     totalSizeMB |-> toFixed2(totalBytes(cache), 1024 * 1024),
     avgEntrySizeKB |-> IF Len(cache) > 0
                        THEN toFixed2(totalBytes(cache), Len(cache) * 1024)
                        ELSE toFixed2(0, 1024),
     maxSize |-> CACHE_MAX_SIZE,
     expiryHours |-> CACHE_EXPIRY_MS]

\* CacheStats that counts the entries without the cleanup pass before it.
CacheStatsUncleaned ==
    LET run == Run("cache-stats", "")
    IN  /\ IF m3u8Disabled
           THEN last' = sendError(run, 404, "M3U8 proxying is disabled")
           ELSE last' = [run EXCEPT !.status = 200,
                                    !.body = getCacheStats(segmentCache),
                                    !.contentType = "application/json",
                                    !.cacheControl = "no-cache, no-store, must-revalidate"]
        /\ UNCHANGED <<now, segmentCache, inflight, pending, cacheDisabled, m3u8Disabled>>

\* GET /cache-stats: the default handler of m3u8-proxy.ts, then
\* handleCacheStats.
CacheStats ==
    LET run == Run("cache-stats", "")
        cl == cleanupCache(segmentCache, now)
    IN  /\ IF m3u8Disabled
           THEN /\ last' = sendError(run, 404, "M3U8 proxying is disabled")
                /\ UNCHANGED segmentCache
           ELSE /\ segmentCache' = cl.cache
                /\ last' = [run EXCEPT !.status = 200,
                                       !.body = getCacheStats(cl.cache),
                                       !.contentType = "application/json",
                                       !.cacheControl = "no-cache, no-store, must-revalidate",
                                       !.log = cl.log]
        /\ UNCHANGED <<now, inflight, pending, cacheDisabled, m3u8Disabled>>

\* M3U8Request that tests the url parameter before the toggle.
M3U8RequestValidatesFirst(url, headersParam) ==
    LET run == Run("m3u8-request", url)
    IN  /\ IF url = Undefined \/ url = ""
           THEN /\ last' = sendError(run, 400, "URL parameter is required")
                /\ UNCHANGED pending
           ELSE IF m3u8Disabled
           THEN /\ last' = sendError(run, 404, "M3U8 proxying is disabled")
                /\ UNCHANGED pending
           ELSE IF parseHeadersThrows(headersParam)
           THEN /\ last' = sendError(run, 400, "Invalid headers format")
                /\ UNCHANGED pending
           ELSE /\ Cardinality(pending) < MaxPending
                /\ [route |-> "m3u8", url |-> url,
                    headers |-> parseHeaders(headersParam)] \notin pending
                /\ pending' = pending \cup {[route |-> "m3u8", url |-> url,
                                             headers |-> parseHeaders(headersParam)]}
                /\ last' = [run EXCEPT
                              !.headers = parseHeaders(headersParam),
                              !.fetches = <<[url |-> url,
                                             headers |-> originHeaders(parseHeaders(headersParam))]>>]
        /\ UNCHANGED <<now, segmentCache, inflight, cacheDisabled, m3u8Disabled>>

\* GET /m3u8-proxy: the default handler of m3u8-proxy.ts and proxyM3U8 to
\* its await of the origin fetch.
M3U8Request(url, headersParam) ==
    LET run == Run("m3u8-request", url)
        headers == parseHeaders(headersParam)
    IN  /\ IF m3u8Disabled
           THEN /\ last' = sendError(run, 404, "M3U8 proxying is disabled")
                /\ UNCHANGED pending
           ELSE IF url = Undefined \/ url = ""
           THEN /\ last' = sendError(run, 400, "URL parameter is required")
                /\ UNCHANGED pending
           ELSE IF parseHeadersThrows(headersParam)
           THEN /\ last' = sendError(run, 400, "Invalid headers format")
                /\ UNCHANGED pending
           ELSE /\ Cardinality(pending) < MaxPending
                /\ [route |-> "m3u8", url |-> url, headers |-> headers] \notin pending
                /\ pending' = pending \cup {[route |-> "m3u8", url |-> url,
                                             headers |-> headers]}
                /\ last' = [run EXCEPT !.headers = headers,
                                       !.fetches = <<[url |-> url,
                                                      headers |-> originHeaders(headers)]>>]
        /\ UNCHANGED <<now, segmentCache, inflight, cacheDisabled, m3u8Disabled>>

\* The headers both branches of proxyM3U8 set on the manifest they return.
manifestResponse(run, text) ==
    [run EXCEPT !.status = 200, !.body = text,
                !.contentType = "application/vnd.apple.mpegurl",
                !.cacheControl = "no-cache, no-store, must-revalidate"]

\* rewrite that takes the manifest for a master playlist by its first line.
rewriteByFirstLine(m3u8Content, url, headers, baseProxyUrl) ==
    IF includes(Head(split(m3u8Content, "\n")), "RESOLUTION=")
    THEN rewriteMaster(NoLines, split(m3u8Content, "\n"), url, headers, baseProxyUrl)
    ELSE rewriteMedia(NoLines, split(m3u8Content, "\n"), url, headers, baseProxyUrl)

\* What proxyM3U8's loop over the lines of m3u8Content leaves, in the
\* branch that the text of m3u8Content selects.
rewrite(m3u8Content, url, headers, baseProxyUrl) ==
    IF includes(m3u8Content, "RESOLUTION=")
    THEN rewriteMaster(NoLines, split(m3u8Content, "\n"), url, headers, baseProxyUrl)
    ELSE rewriteMedia(NoLines, split(m3u8Content, "\n"), url, headers, baseProxyUrl)

\* rewrite of every manifest and headers object the model draws, for the
\* manifest URL and proxy address of the model (a table, which TLC computes
\* once instead of at every step).
rewritten ==
    [m3u8Content \in AllManifests \cup Manifests \cup BurstManifests,
     headers \in HeaderObjects |->
        rewrite(m3u8Content, ManifestUrl, headers, BaseProxyUrl)]

\* In the media branch's loop: prefetchSegment(keyUrl, headers) for each
\* key URL, if the cache is enabled.
prefetchKeys(m, keyUrls, headers, t, disabled) ==
    IF disabled THEN m ELSE prefetchAll(m, keyUrls, headers, t, disabled)

\* console.log(`Starting to prefetch ...`) and cleanupCache(), which has
\* left cl.
startBatch(m, cl, segmentUrls, url) ==
    [m EXCEPT !.cache = cl.cache,
              !.run.log = @ \o <<"Starting to prefetch " \o ToString(Len(segmentUrls))
                                 \o " segments for " \o url>> \o cl.log]

\* prefetchBatch without the test of isCacheDisabled() around the batch, in
\* prefetchSegment included.
prefetchBatchUnguarded(m, segmentUrls, url, headers, t, disabled) ==
    IF Len(segmentUrls) = 0 THEN m
    ELSE prefetchAll(startBatch(m, cleanupCache(m.cache, t), segmentUrls, url),
                     segmentUrls, headers, t, FALSE)

\* After the media branch's loop: if (segmentUrls.length > 0) { ... }
prefetchBatch(m, segmentUrls, url, headers, t, disabled) ==
    IF Len(segmentUrls) = 0 THEN m
    ELSE IF disabled
    THEN [m EXCEPT !.run.log = @ \o <<"Starting to prefetch " \o ToString(Len(segmentUrls))
                                      \o " segments for " \o url,
                                      "Cache disabled - skipping prefetch operations">>]
    ELSE prefetchAll(startBatch(m, cleanupCache(m.cache, t), segmentUrls, url),
                     segmentUrls, headers, t, disabled)

\* proxyM3U8 from the origin's success response to its return, where its
\* loop leaves r: the prefetches of the keys, then the catch (if parseURL
\* has thrown) or the batch of prefetches and the return of the manifest.
proxyM3U8Loop(m, r, url, headers, t, disabled) ==
    IF r.threw
    THEN [prefetchKeys(m, r.keyUrls, headers, t, disabled) EXCEPT
            !.run = sendError(@, 500, "Invalid URL")]
    ELSE [prefetchBatch(prefetchKeys(m, r.keyUrls, headers, t, disabled),
                        r.segmentUrls, url, headers, t, disabled) EXCEPT
            !.run = manifestResponse(@, join(r.newLines, "\n"))]

\* proxyM3U8 from the origin's success response to its return, at time t,
\* on the machine state m.
proxyM3U8(m, url, headers, m3u8Content, t, disabled) ==
    proxyM3U8Loop(m, rewritten[m3u8Content, headers], url, headers, t, disabled)

\* The handler returns and leaves m: the cache, the fetches in flight and
\* the run's record.
returnM3U8(req, m) ==
    /\ bagSize(m.inflight) <= MaxInflight
    /\ pending' = pending \ {req}
    /\ segmentCache' = m.cache
    /\ inflight' = m.inflight
    /\ last' = m.run
    /\ UNCHANGED <<now, cacheDisabled, m3u8Disabled>>

\* The run of a manifest request from the resolution of its fetch.
m3u8Run(req) ==
    [cache |-> segmentCache, inflight |-> inflight,
     run |-> [Run("m3u8-response", req.url) EXCEPT !.headers = req.headers]]

\* The origin answers a manifest request's fetch, and proxyM3U8 runs to its
\* return.
M3U8Respond(req, outcome, m3u8Content) ==
    /\ req \in pending
    /\ req.route = "m3u8"
    /\ req.url = ManifestUrl
    /\ returnM3U8(req,
          CASE outcome = "fail" ->
                 [m3u8Run(req) EXCEPT !.run = sendError(@, 500, "fetch failed")]
            [] outcome = "notok" ->
                 [m3u8Run(req) EXCEPT
                    !.run = sendError(@, 500, "Failed to fetch M3U8: 404 Not Found")]
            [] outcome = "ok" ->
                 proxyM3U8([m3u8Run(req) EXCEPT !.run.content = m3u8Content],
                           req.url, req.headers, m3u8Content, now, cacheDisabled))

\* cachedSegment.headers['content-type'] || 'video/mp2t'
contentTypeOf(headers) ==
    IF \E i \in 1..Len(headers) : headers[i][1] = "content-type"
    THEN headers[CHOOSE i \in 1..Len(headers) : headers[i][1] = "content-type"][2]
    ELSE "video/mp2t"

\* TsRequest that parses the headers parameter after its lookup in the cache.
TsRequestLookupFirst(url, headersParam) ==
    LET run == Run("ts-request", url)
        got == getCachedSegment(segmentCache, url, now, cacheDisabled)
    IN  /\ IF m3u8Disabled
           THEN /\ last' = sendError(run, 404, "TS proxying is disabled")
                /\ UNCHANGED <<pending, segmentCache>>
           ELSE IF url = Undefined \/ url = ""
           THEN /\ last' = sendError(run, 400, "URL parameter is required")
                /\ UNCHANGED <<pending, segmentCache>>
           ELSE IF ~cacheDisabled /\ got.hit
           THEN /\ last' = [run EXCEPT !.status = 200,
                                       !.body = got.entry.data,
                                       !.contentType = contentTypeOf(got.entry.headers),
                                       !.cacheControl = "public, max-age=3600",
                                       !.lookup = got.found]
                /\ segmentCache' = got.cache
                /\ UNCHANGED pending
           ELSE IF parseHeadersThrows(headersParam)
           THEN /\ last' = [sendError(run, 400, "Invalid headers format") EXCEPT
                              !.lookup = IF cacheDisabled THEN "none" ELSE got.found]
                /\ segmentCache' = IF cacheDisabled THEN segmentCache ELSE got.cache
                /\ UNCHANGED pending
           ELSE /\ Cardinality(pending) < MaxPending
                /\ [route |-> "ts", url |-> url, headers |-> << >>] \notin pending
                /\ segmentCache' = IF cacheDisabled THEN segmentCache ELSE got.cache
                /\ pending' = pending \cup {[route |-> "ts", url |-> url,
                                             headers |-> << >>]}
                /\ last' = [run EXCEPT !.headers = parseHeaders(headersParam),
                                       !.lookup = IF cacheDisabled THEN "none"
                                                  ELSE got.found,
                                       !.fetches = <<[url |-> url,
                                                      headers |-> originHeaders(parseHeaders(headersParam))]>>]
        /\ UNCHANGED <<now, inflight, cacheDisabled, m3u8Disabled>>

\* GET /ts-proxy: the default handler of ts-proxy.ts to its return from the
\* cache or to its await of the origin fetch.  (The handler does not use
\* the headers after it has issued the fetch.)
TsRequest(url, headersParam) ==
    LET run == Run("ts-request", url)
        headers == parseHeaders(headersParam)
        got == getCachedSegment(segmentCache, url, now, cacheDisabled)
    IN  /\ IF m3u8Disabled
           THEN /\ last' = sendError(run, 404, "TS proxying is disabled")
                /\ UNCHANGED <<pending, segmentCache>>
           ELSE IF url = Undefined \/ url = ""
           THEN /\ last' = sendError(run, 400, "URL parameter is required")
                /\ UNCHANGED <<pending, segmentCache>>
           ELSE IF parseHeadersThrows(headersParam)
           THEN /\ last' = sendError(run, 400, "Invalid headers format")
                /\ UNCHANGED <<pending, segmentCache>>
           ELSE IF ~cacheDisabled /\ got.hit
           THEN /\ last' = [run EXCEPT !.status = 200,
                                       !.body = got.entry.data,
                                       !.contentType = contentTypeOf(got.entry.headers),
                                       !.cacheControl = "public, max-age=3600",
                                       !.headers = headers,
                                       !.lookup = got.found]
                /\ segmentCache' = got.cache
                /\ UNCHANGED pending
           ELSE /\ Cardinality(pending) < MaxPending
                /\ [route |-> "ts", url |-> url, headers |-> << >>] \notin pending
                /\ segmentCache' = IF cacheDisabled THEN segmentCache ELSE got.cache
                /\ pending' = pending \cup {[route |-> "ts", url |-> url,
                                             headers |-> << >>]}
                /\ last' = [run EXCEPT !.headers = headers,
                                       !.lookup = IF cacheDisabled THEN "none"
                                                  ELSE got.found,
                                       !.fetches = <<[url |-> url,
                                                      headers |-> originHeaders(headers)]>>]
        /\ UNCHANGED <<now, inflight, cacheDisabled, m3u8Disabled>>

\* TsRespond that stores the origin's body in the cache.
TsRespondStores(req, outcome) ==
    LET run == Run("ts-response", req.url)
    IN  /\ req \in pending
        /\ req.route = "ts"
        /\ pending' = pending \ {req}
        /\ last' = IF outcome = "ok"
                   THEN [run EXCEPT !.status = 200,
                                    !.body = originBody(req.url, now),
                                    !.content = originBody(req.url, now)]
                   ELSE sendError(run, 500, "fetch failed")
        /\ segmentCache' = IF outcome = "ok" /\ ~cacheDisabled
                           THEN mapSet(segmentCache, req.url,
                                       [url |-> req.url,
                                        data |-> originBody(req.url, now),
                                        headers |-> << >>, timestamp |-> now])
                           ELSE segmentCache
        /\ UNCHANGED <<now, inflight, cacheDisabled, m3u8Disabled>>

\* The origin answers a segment request's fetch, and the handler returns.
TsRespond(req, outcome) ==
    LET run == Run("ts-response", req.url)
    IN  /\ req \in pending
        /\ req.route = "ts"
        /\ pending' = pending \ {req}
        /\ last' = CASE outcome = "fail" -> sendError(run, 500, "fetch failed")
                     [] outcome = "notok" ->
                          sendError(run, 500, "Failed to fetch TS file: 404 Not Found")
                     [] outcome = "ok" ->
                          [run EXCEPT !.status = 200,
                                      !.body = originBody(req.url, now),
                                      !.content = originBody(req.url, now),
                                      !.contentType = "video/mp2t",
                                      !.cacheControl = "public, max-age=3600"]
        /\ UNCHANGED <<now, segmentCache, inflight, cacheDisabled, m3u8Disabled>>

\* PrefetchDone that fetches again after a failure.
PrefetchDoneRetries(url, outcome) ==
    LET run == Run("prefetch-done", url)
    IN  /\ url \in DOMAIN inflight
        /\ IF outcome = "ok"
           THEN /\ inflight' = bagRemove(inflight, url)
                /\ segmentCache' = mapSet(segmentCache, url,
                                          [url |-> url, data |-> originBody(url, now),
                                           headers |-> originResponseHeaders(url),
                                           timestamp |-> now])
                /\ last' = [run EXCEPT !.content = originBody(url, now)]
           ELSE /\ inflight' = inflight
                /\ UNCHANGED segmentCache
                /\ last' = [run EXCEPT !.fetches = <<[url |-> url,
                                                       headers |-> originHeaders(<< >>)]>>]
        /\ UNCHANGED <<now, pending, cacheDisabled, m3u8Disabled>>

\* The origin answers a prefetch's fetch, and prefetchSegment runs from its
\* await to its end.  (Its second await, of response.arrayBuffer(), follows
\* the first with nothing in between that reads or writes the cache.)
PrefetchDone(url, outcome) ==
    LET run == Run("prefetch-done", url)
    IN  /\ url \in DOMAIN inflight
        /\ inflight' = bagRemove(inflight, url)
        /\ CASE outcome = "ok" ->
                  /\ segmentCache' = mapSet(segmentCache, url,
                                            [url |-> url,
                                             data |-> originBody(url, now),
                                             headers |-> originResponseHeaders(url),
                                             timestamp |-> now])
                  /\ last' = [run EXCEPT !.content = originBody(url, now),
                                !.log = <<"Prefetched and cached segment: " \o url>>]
             [] outcome = "notok" ->
                  /\ UNCHANGED segmentCache
                  /\ last' = [run EXCEPT
                                !.log = <<"Failed to prefetch TS segment: 404 Not Found">>]
             [] outcome = "fail" ->
                  /\ UNCHANGED segmentCache
                  /\ last' = [run EXCEPT
                                !.log = <<"Error prefetching segment " \o url \o ":">>]
        /\ UNCHANGED <<now, pending, cacheDisabled, m3u8Disabled>>

Next ==
    \/ Tick
    \/ Janitor
    \/ CacheStats
    \/ \E route \in {"/m3u8-proxy", "/ts-proxy", "/cache-stats"} : Preflight(route)
    \/ \E url \in ManifestUrlParams, hp \in CacheHeaderParams : M3U8Request(url, hp)
    \/ \E req \in pending, outcome \in Outcomes, content \in Manifests :
           M3U8Respond(req, outcome, content)
    \/ \E url \in SegmentUrlParams, hp \in CacheHeaderParams : TsRequest(url, hp)
    \/ \E req \in pending, outcome \in Outcomes : TsRespond(req, outcome)
    \/ \E url \in DOMAIN inflight, outcome \in Outcomes : PrefetchDone(url, outcome)

Spec == Init /\ [][Next]_vars

(***************************************************************************)
(* The timer's specification: the runs that change the cache (manifest     *)
(* requests the origin answers, the completions of their prefetches,       *)
(* segment requests, the janitor) and the clock, in every order.           *)
(* setInterval runs cleanupCache again and again for as long as the        *)
(* process lives, so a janitor pass that would change the state is not put *)
(* off for ever; nothing else is required ever to happen.                  *)
(***************************************************************************)
NextTimer ==
    \/ Tick
    \/ Janitor
    \/ M3U8Request(ManifestUrl, Undefined)
    \/ \E req \in pending, content \in Manifests : M3U8Respond(req, "ok", content)
    \/ TsRequest("https://o/a/s1.ts", Undefined)
    \/ \E req \in pending : TsRespond(req, "ok")
    \/ \E url \in DOMAIN inflight, outcome \in Outcomes : PrefetchDone(url, outcome)

SpecTimer == Init /\ [][NextTimer]_vars /\ WF_vars(Janitor)

(***************************************************************************)
(* The environment's specification.  The code reads                        *)
(* process.env.DISABLE_CACHE at every call (isCacheDisabled is a function),*)
(* so what a run does depends on the value the variable has at that run.   *)
(* Here that value may change between two runs, and every run of Spec may  *)
(* follow.                                                                 *)
(***************************************************************************)
\* process.env.DISABLE_CACHE becomes 'true' (value) or something else.
SetEnv(value) ==
    /\ cacheDisabled # value
    /\ cacheDisabled' = value
    /\ last' = Run("setenv", "DISABLE_CACHE")
    /\ UNCHANGED <<now, segmentCache, inflight, pending, m3u8Disabled>>

NextEnv ==
    \/ Next
    \/ \E value \in BOOLEAN : SetEnv(value)

SpecEnv == Init /\ [][NextEnv]_vars

(***************************************************************************)
(* The burst's specification: manifest requests whose playlists name four  *)
(* URLs between them, the completions of their prefetches, requests of a   *)
(* segment, the janitor and the clock, in every order.                     *)
(***************************************************************************)
NextBurst ==
    \/ Tick
    \/ Janitor
    \/ M3U8Request(ManifestUrl, Undefined)
    \/ \E req \in pending, content \in BurstManifests : M3U8Respond(req, "ok", content)
    \/ TsRequest("https://o/a/s1.ts", Undefined)
    \/ \E req \in pending : TsRespond(req, "ok")
    \/ \E url \in DOMAIN inflight, outcome \in Outcomes : PrefetchDone(url, outcome)

SpecBurst == Init /\ [][NextBurst]_vars

(***************************************************************************)
(* The rewriter's specification: a manifest request awaits its origin      *)
(* fetch, and the origin answers it with any of AllManifests.               *)
(***************************************************************************)
InitRewrite ==
    /\ now = 0
    /\ segmentCache = << >>
    /\ inflight = EmptyBag
    /\ cacheDisabled \in BOOLEAN
    /\ m3u8Disabled = FALSE
    /\ \E headers \in HeaderObjects :
          /\ pending = {[route |-> "m3u8", url |-> ManifestUrl, headers |-> headers]}
          /\ last = [Run("m3u8-request", ManifestUrl) EXCEPT
                       !.headers = headers,
                       !.fetches = <<[url |-> ManifestUrl,
                                      headers |-> originHeaders(headers)]>>]

NextRewrite ==
    \E req \in pending, outcome \in Outcomes, content \in AllManifests :
        M3U8Respond(req, outcome, content)

SpecRewrite == InitRewrite /\ [][NextRewrite]_vars

(***************************************************************************)
(* The properties.                                                         *)
(***************************************************************************)
\* The entries of a cache, as a set.
entriesOf(cache) == {cache[i] : i \in 1..Len(cache)}

\* The cache holds an entry for url that has not expired at time t.
hasUnexpired(cache, url, t) ==
    mapHas(cache, url) /\ t - mapGet(cache, url).timestamp <= CACHE_EXPIRY_MS

\* The step is a cleanup pass alone: the janitor's, or that of /cache-stats.
CleanupPass ==
    last'.op = "janitor" \/ (last'.op = "cache-stats" /\ last'.status = 200)

\* C1: whenever a cleanup pass runs on a cache of more than CACHE_MAX_SIZE
\* entries, it removes entries only; if no more than size - CACHE_MAX_SIZE
\* of the entries have expired, the cache holds exactly CACHE_MAX_SIZE
\* entries afterwards; and every entry it retains has a timestamp greater
\* than or equal to that of every unexpired entry it evicts.
C1_CleanupKeepsNewest ==
    [][ (CleanupPass /\ Len(segmentCache) > CACHE_MAX_SIZE) =>
          LET before == entriesOf(segmentCache)
              after == entriesOf(segmentCache')
              expired == {e \in before : now - e.timestamp > CACHE_EXPIRY_MS}
              evicted == (before \ expired) \ after
          IN  /\ after \subseteq before \ expired
              /\ Len(segmentCache') <= CACHE_MAX_SIZE
              /\ Cardinality(expired) <= Len(segmentCache) - CACHE_MAX_SIZE
                    => Len(segmentCache') = CACHE_MAX_SIZE
              /\ \A r \in after, e \in evicted : r.timestamp >= e.timestamp
      ]_vars

\* The janitor has found the cache over its capacity with nothing expired,
\* and has evicted down to CACHE_MAX_SIZE.
C1_Witness ==
    /\ last.op = "janitor"
    /\ last.log = <<"Cache size limit reached. Removed 1 oldest entries. Current size: "
                    \o ToString(CACHE_MAX_SIZE)>>
    /\ Len(segmentCache) = CACHE_MAX_SIZE

\* The step is a segment request that reaches its lookup in the cache.
TsLookup == last'.op = "ts-request" /\ last'.status \notin {400, 404}

\* C2: a segment request's lookup returns the entry of its URL if and only
\* if the cache holds one whose age is at most CACHE_EXPIRY_MS, and a lookup
\* that finds an older entry deletes it and is a miss (the request goes to
\* the origin).
C2_LookupHonoursTTL ==
    [][ TsLookup =>
          LET url == last'.url
          IN  IF mapHas(segmentCache, url)
              THEN LET e == mapGet(segmentCache, url)
                   IN  IF now - e.timestamp <= CACHE_EXPIRY_MS
                       THEN /\ last'.status = 200
                            /\ last'.body = e.data
                            /\ last'.fetches = << >>
                            /\ segmentCache' = segmentCache
                       ELSE /\ last'.status = 0
                            /\ Len(last'.fetches) = 1
                            /\ ~mapHas(segmentCache', url)
              ELSE /\ last'.status = 0
                   /\ Len(last'.fetches) = 1
                   /\ segmentCache' = segmentCache
      ]_vars

\* A segment request has found an expired entry: it is a miss, and the
\* entry is gone.
C2_Witness ==
    /\ last.op = "ts-request"
    /\ last.lookup = "expired"
    /\ last.status = 0
    /\ ~mapHas(segmentCache, last.url)

\* The step is a segment request that misses the cache.
TsMiss == TsLookup /\ last'.status = 0

\* C3 as stated: a segment request that misses performs exactly one origin
\* fetch, returns the origin's body, and leaves the cache unchanged.
C3_MissLeavesCacheUnchanged ==
    [][ /\ TsMiss =>
              /\ last'.fetches = <<[url |-> last'.url,
                                    headers |-> originHeaders(last'.headers)]>>
              /\ segmentCache' = segmentCache
        /\ last'.op = "ts-response" =>
              /\ last'.fetches = << >>
              /\ segmentCache' = segmentCache
              /\ last'.content # Undefined =>
                    last'.status = 200 /\ last'.body = last'.content
      ]_vars

\* C3, amended: a segment request that misses performs exactly one origin
\* fetch and returns the origin's body; it inserts no entry and alters
\* none: the cache it leaves is the cache it found, less the expired entry
\* of the requested URL if there was one.
C3_MissNeverInserts ==
    [][ /\ TsMiss =>
              /\ last'.fetches = <<[url |-> last'.url,
                                    headers |-> originHeaders(last'.headers)]>>
              /\ segmentCache' =
                    SelectSeq(segmentCache,
                              LAMBDA e : ~(e.url = last'.url
                                           /\ now - e.timestamp > CACHE_EXPIRY_MS))
        /\ last'.op = "ts-response" =>
              /\ last'.fetches = << >>
              /\ segmentCache' = segmentCache
              /\ last'.content # Undefined =>
                    last'.status = 200 /\ last'.body = last'.content
        /\ last'.op \in {"ts-request", "ts-response"} =>
              entriesOf(segmentCache') \subseteq entriesOf(segmentCache)
      ]_vars

\* A segment request has missed on an expired entry and gone to the origin,
\* and the cache keeps its other entry.
C3_Witness ==
    /\ last.op = "ts-request"
    /\ last.lookup = "expired"
    /\ Len(last.fetches) = 1
    /\ Len(segmentCache) = 1

\* C4 as stated: a call of prefetchSegment for a URL of which the cache
\* holds an unexpired entry issues no fetch and leaves the cache as it
\* found it.
C4_PrefetchOfCachedIsNoOp ==
    \A i \in 1..Len(last.calls) :
        LET c == last.calls[i]
        IN  hasUnexpired(c.before, c.url, now) =>
                ~c.fetched /\ c.after = c.before

\* The run answers the manifest of which the loop over the lines leaves r:
\* 500 if parseURL has thrown, and 200 with the new lines if not.
manifestAnswers(run, r) ==
    IF r.threw
    THEN run.status = 500
    ELSE run.status = 200 /\ run.body = join(r.newLines, "\n")

\* The step is the end of a prefetch whose fetch failed or whose response
\* was not a success.
PrefetchFailed == last'.op = "prefetch-done" /\ last'.content = Undefined

\* C5: a prefetch whose fetch fails, or whose response is not a success,
\* stores nothing, issues no further fetch and calls nothing, answers no
\* request and leaves the requests that wait as they are; and what a
\* manifest request returns (status and text) depends on the manifest and
\* the headers alone.
C5_PrefetchFailureInvisible ==
    [][ /\ PrefetchFailed =>
              /\ segmentCache' = segmentCache
              /\ inflight' = bagRemove(inflight, last'.url)
              /\ last'.fetches = << >>
              /\ last'.calls = << >>
              /\ last'.status = 0
              /\ pending' = pending
        /\ (last'.op = "m3u8-response" /\ last'.content # Undefined) =>
              manifestAnswers(last', rewrite(last'.content, last'.url,
                                             last'.headers, BaseProxyUrl))
      ]_vars

\* A prefetch has ended on a response that is not a success.
C5_Witness ==
    /\ last.op = "prefetch-done"
    /\ last.log = <<"Failed to prefetch TS segment: 404 Not Found">>
    /\ last.status = 0

\* The state follows a manifest request's return from the media branch.
MediaReturned ==
    /\ last.op = "m3u8-response"
    /\ last.status = 200
    /\ ~includes(last.content, "RESOLUTION=")

\* C6 as stated: the media branch returns the manifest before any step of
\* a prefetch it triggers: the run that returns has made no call of
\* prefetchSegment and issued no fetch.
C6_ReturnedBeforePrefetchStarts ==
    MediaReturned => last.calls = << >> /\ last.fetches = << >>

\* How many of the calls fetched url.
fetchedCount(calls, url) ==
    Cardinality({i \in 1..Len(calls) : calls[i].url = url /\ calls[i].fetched})

\* How many times url is in the bag.
bagCount(bag, url) == IF url \in DOMAIN bag THEN bag[url] ELSE 0

\* C6, amended: the media branch returns the manifest before any prefetch
\* it triggers completes: each call of prefetchSegment runs to its fetch
\* (capacity check and cleanup, lookup, the request to the origin) within
\* the run that returns, every fetch issued is still awaited when the
\* manifest is returned, and nothing has been stored in the cache.
C6_ReturnedBeforePrefetchCompletes ==
    [][ (last'.op = "m3u8-response" /\ last'.status = 200
         /\ ~includes(last'.content, "RESOLUTION=")) =>
          /\ entriesOf(segmentCache') \subseteq entriesOf(segmentCache)
          /\ \A u \in DOMAIN inflight' \cup {last'.calls[i].url : i \in 1..Len(last'.calls)} :
                bagCount(inflight', u) = bagCount(inflight, u) + fetchedCount(last'.calls, u)
          /\ Len(last'.fetches) =
                Cardinality({i \in 1..Len(last'.calls) : last'.calls[i].fetched})
          /\ pending' = pending \ {[route |-> "m3u8", url |-> last'.url,
                                    headers |-> last'.headers]}
      ]_vars

\* The media branch has returned the manifest, and the run has issued the
\* fetches of the prefetches of the key and of the segment, which wait.
C6_Witness ==
    /\ MediaReturned
    /\ Len(last.calls) = 2
    /\ \A i \in 1..Len(last.calls) :
          last.calls[i].fetched /\ last.calls[i].url \in DOMAIN inflight

\* C7: a segment request that passes the checks of its parameters is never
\* answered with an error at its lookup, whatever the cache holds and
\* whatever prefetches are in flight: it returns the payload of the
\* unexpired entry of its URL if the cache holds one, and otherwise issues
\* its own fetch and waits for it; and when the origin answers that fetch
\* with success, the request returns 200 with the origin's body.
C7_SegmentRequestNeverFailsOnCache ==
    [][ /\ TsLookup =>
              IF hasUnexpired(segmentCache, last'.url, now)
              THEN /\ last'.status = 200
                   /\ last'.body = mapGet(segmentCache, last'.url).data
                   /\ pending' = pending
              ELSE /\ last'.status = 0
                   /\ last'.fetches # << >>
                   /\ \E req \in pending' \ pending :
                         req.route = "ts" /\ req.url = last'.url
        /\ (last'.op = "ts-response" /\ last'.content # Undefined) =>
              /\ last'.status = 200
              /\ last'.body = originBody(last'.url, now)
              /\ last'.contentType = "video/mp2t"
      ]_vars

\* A segment request has missed while the prefetch of its URL is in flight,
\* and has gone to the origin itself.
C7_Witness ==
    /\ last.op = "ts-request"
    /\ last.status = 0
    /\ last.lookup = "absent"
    /\ last.url \in DOMAIN inflight
    /\ \E req \in pending : req.route = "ts" /\ req.url = last.url

\* The line is a URI: it is not a directive or a comment, and it is not
\* blank.
isUriLine(line) == ~startsWith(line, "#") /\ trim(line) # ""

\* new URL resolves every URI line of the manifest against the manifest's URL.
allResolve(m3u8Content, url) ==
    LET lines == split(m3u8Content, "\n")
    IN  \A i \in 1..Len(lines) :
            isUriLine(lines[i]) => newURL(lines[i], url) # TypeError

\* The state follows the origin's success response to a manifest request.
ManifestResponded == last.op = "m3u8-response" /\ last.content # Undefined

\* C8: a media playlist whose URI lines all resolve is returned with
\* status 200 and as many lines as it has, and line by line: a URI line is
\* the /ts-proxy URL whose url parameter is the resolved absolute URL and
\* whose headers parameter is the headers' JSON, both percent-encoded; a
\* blank line, and a directive that is not a key directive, is the line
\* itself.
C8_MediaRewritePreservesLines ==
    (/\ ManifestResponded
     /\ ~includes(last.content, "RESOLUTION=")
     /\ allResolve(last.content, last.url)) =>
        LET lines == split(last.content, "\n")
            newLines == split(last.body, "\n")
        IN  /\ last.status = 200
            /\ Len(newLines) = Len(lines)
            /\ \A i \in 1..Len(lines) :
                  IF isUriLine(lines[i])
                  THEN newLines[i] =
                          BaseProxyUrl \o "/ts-proxy?url="
                          \o encodeURIComponent(newURL(lines[i], last.url))
                          \o "&headers="
                          \o encodeURIComponent(JSONstringify(last.headers))
                  ELSE startsWith(lines[i], "#EXT-X-KEY:") \/ newLines[i] = lines[i]

\* A media playlist of a directive, a segment's URI and an empty line has
\* been rewritten, with headers of the caller.
C8_Witness ==
    /\ ManifestResponded
    /\ last.content = "#EXTINF:4,\ns1.ts\n"
    /\ last.headers # << >>
    /\ last.status = 200

\* The line with its first URL (if it has one) replaced by the URL of route
\* that proxies it.
withProxiedUrl(line, route, headers) ==
    LET found == execUrlRegex(line)
    IN  IF found = Undefined THEN line
        ELSE replace(line, found, proxyUrl(BaseProxyUrl, route, found, headers))

\* C9: a manifest whose URI lines all resolve is returned with status 200,
\* line for line.  If its text contains "RESOLUTION=" anywhere, it is
\* rewritten as a master playlist: URI lines become /m3u8-proxy URLs, the
\* URL of an #EXT-X-MEDIA line becomes a /m3u8-proxy URL, and no prefetch
\* is called and no fetch issued.  If not, it is rewritten as a media
\* playlist even where it holds key or #EXT-X-MEDIA directives: URI lines
\* become /ts-proxy URLs, the URL of an #EXT-X-KEY line becomes a /ts-proxy
\* URL, and an #EXT-X-MEDIA line is returned as it is.
C9_MasterOrMediaByMarker ==
    (ManifestResponded /\ allResolve(last.content, last.url)) =>
        LET lines == split(last.content, "\n")
            newLines == split(last.body, "\n")
            master == \E i \in 1..Len(lines) : includes(lines[i], "RESOLUTION=")
            route == IF master THEN "/m3u8-proxy" ELSE "/ts-proxy"
        IN  /\ last.status = 200
            /\ Len(newLines) = Len(lines)
            /\ master => last.calls = << >> /\ last.fetches = << >>
                         /\ inflight = EmptyBag
            /\ \A i \in 1..Len(lines) :
                  IF isUriLine(lines[i])
                  THEN newLines[i] = proxyUrl(BaseProxyUrl, route,
                                              newURL(lines[i], last.url), last.headers)
                  ELSE IF startsWith(lines[i], "#EXT-X-MEDIA:")
                  THEN newLines[i] = IF master
                                     THEN withProxiedUrl(lines[i], "/m3u8-proxy", last.headers)
                                     ELSE lines[i]
                  ELSE IF startsWith(lines[i], "#EXT-X-KEY:")
                  THEN newLines[i] = withProxiedUrl(lines[i], "/ts-proxy", last.headers)
                  ELSE newLines[i] = lines[i]

\* A manifest with the marker on its last line only, after an #EXT-X-MEDIA
\* directive and a URI, has been rewritten.
C9_Witness ==
    /\ ManifestResponded
    /\ last.content = "#EXT-X-MEDIA:URI=\"https://o/a.m3u8\"\ns1.ts\n" \o StreamInfLine
    /\ last.status = 200

\* C10 as stated: where new URL cannot resolve a URI line of a manifest,
\* the manifest is still returned with status 200, that line as it is and
\* every other line rewritten.
C10_ResolutionFailureRecovered ==
    ManifestResponded =>
        LET lines == split(last.content, "\n")
            newLines == split(last.body, "\n")
        IN  /\ last.status = 200
            /\ Len(newLines) = Len(lines)
            /\ \A i \in 1..Len(lines) :
                  (isUriLine(lines[i]) /\ newURL(lines[i], last.url) = TypeError)
                      => newLines[i] = lines[i]

\* The request has no url parameter, or a headers parameter JSON.parse
\* rejects.
BadParams(url, headersParam) ==
    url = Undefined \/ url = "" \/ parseHeadersThrows(headersParam)

\* The run answers 400 and does nothing else: no fetch, no call of
\* prefetchSegment, no lookup in the cache, and the cache, the fetches in
\* flight and the requests that await their fetch stay as they are.
Rejected400 ==
    /\ last'.status = 400
    /\ last'.fetches = << >>
    /\ last'.calls = << >>
    /\ last'.lookup = "none"
    /\ UNCHANGED <<segmentCache, inflight, pending>>

\* C11: with proxying enabled, a request to /m3u8-proxy or to /ts-proxy
\* that has no url parameter, or whose headers parameter is not valid JSON,
\* is answered 400 in the run of its arrival, which issues no origin fetch,
\* starts no prefetch, and neither reads nor changes the cache.
C11_BadRequestRejectedAtOnce ==
    [][ \A hp \in CacheHeaderParams :
          /\ \A url \in ManifestUrlParams :
                (~m3u8Disabled /\ BadParams(url, hp) /\ M3U8Request(url, hp))
                    => Rejected400
          /\ \A url \in SegmentUrlParams :
                (~m3u8Disabled /\ BadParams(url, hp) /\ TsRequest(url, hp))
                    => Rejected400
      ]_vars

\* A segment request whose headers parameter is not JSON has been answered
\* 400 while the cache holds an expired entry of its URL, which a lookup
\* would have deleted.
C11_Witness ==
    /\ last.op = "ts-request"
    /\ last.status = 400
    /\ last.body = "Invalid headers format"
    /\ mapHas(segmentCache, last.url)
    /\ isExpired(mapGet(segmentCache, last.url), now)

\* The run answers 404 and does nothing else.
Rejected404 ==
    /\ last'.status = 404
    /\ last'.fetches = << >>
    /\ last'.calls = << >>
    /\ last'.lookup = "none"
    /\ UNCHANGED <<segmentCache, inflight, pending>>

\* C12: while proxying is disabled, every request to /m3u8-proxy and to
\* /ts-proxy that is not a preflight is answered 404 whatever its
\* parameters are (a missing url or a headers text that is not JSON
\* included), with no origin fetch, no lookup in the cache, no prefetch and
\* no change of the cache.
C12_DisabledAnswers404First ==
    [][ \A hp \in CacheHeaderParams :
          /\ \A url \in ManifestUrlParams :
                (m3u8Disabled /\ M3U8Request(url, hp)) => Rejected404
          /\ \A url \in SegmentUrlParams :
                (m3u8Disabled /\ TsRequest(url, hp)) => Rejected404
      ]_vars

\* A manifest request without a url parameter has been answered 404.
C12_Witness ==
    /\ m3u8Disabled
    /\ last.op = "m3u8-request"
    /\ last.url = Undefined
    /\ last.status = 404
    /\ last.body = "M3U8 proxying is disabled"

\* The state a detached call of prefetchSegment works on.
Machine == [cache |-> segmentCache, inflight |-> inflight, run |-> Run("prefetch", "")]

\* C13: while DISABLE_CACHE is set, a manifest's run starts no fetch of a
\* prefetch and leaves the cache as it is, a call of prefetchSegment
\* returns with no fetch and no change of the cache, getCachedSegment
\* returns no entry whatever the cache holds, and every segment request
\* with good parameters awaits one origin fetch of its URL and leaves the
\* cache as it is.
C13_DisabledCacheIsBypassed ==
    [][ cacheDisabled =>
          /\ last'.op = "m3u8-response" =>
                /\ inflight' = inflight
                /\ segmentCache' = segmentCache
                /\ last'.fetches = << >>
                /\ \A i \in 1..Len(last'.calls) : ~last'.calls[i].fetched
          /\ \A url \in SegmentUrlParams \ {Undefined} :
                /\ prefetchSegment(Machine, url, << >>, now, TRUE).cache = segmentCache
                /\ prefetchSegment(Machine, url, << >>, now, TRUE).inflight = inflight
                /\ prefetchSegment(Machine, url, << >>, now, TRUE).run.fetches = << >>
                /\ ~getCachedSegment(segmentCache, url, now, TRUE).hit
                /\ getCachedSegment(segmentCache, url, now, TRUE).cache = segmentCache
          /\ (last'.op = "ts-request" /\ last'.status \notin {400, 404}) =>
                /\ last'.status = 0
                /\ Len(last'.fetches) = 1
                /\ last'.fetches[1].url = last'.url
                /\ [route |-> "ts", url |-> last'.url, headers |-> << >>] \in pending'
                /\ segmentCache' = segmentCache
      ]_vars

\* With DISABLE_CACHE set, a segment request has gone to the origin while
\* the cache holds an entry of its URL, stored earlier, that has not
\* expired.
C13_Witness ==
    /\ cacheDisabled
    /\ last.op = "ts-request"
    /\ last.status = 0
    /\ Len(last.fetches) = 1
    /\ mapHas(segmentCache, last.url)
    /\ ~isExpired(mapGet(segmentCache, last.url), now)

\* The smaller of two numbers.
Min(a, b) == IF a <= b THEN a ELSE b

\* C14: with proxying enabled, the number of entries /cache-stats reports
\* is the number of entries the cache holds after the request, none of
\* which is older than CACHE_EXPIRY_MS at the time of the request; it is
\* the number of unexpired entries the cache held before, or CACHE_MAX_SIZE
\* if that is less.
C14_StatsCountIsFresh ==
    [][ (CacheStats /\ ~m3u8Disabled) =>
          LET unexpired == {e \in entriesOf(segmentCache) :
                               now - e.timestamp <= CACHE_EXPIRY_MS}
          IN  /\ last'.status = 200
              /\ last'.body.entries = Len(segmentCache')
              /\ entriesOf(segmentCache') \subseteq unexpired
              /\ last'.body.entries = Min(Cardinality(unexpired), CACHE_MAX_SIZE)
              /\ last'.body.entries <= last'.body.maxSize
      ]_vars

\* /cache-stats has found an expired entry in the cache, has removed it,
\* and has reported the entries that are left.
C14_Witness ==
    /\ last.op = "cache-stats"
    /\ last.status = 200
    /\ \E i \in 1..Len(last.log) : startsWith(last.log[i], "Cleaned up 1 expired")
    /\ last.body.entries = Len(segmentCache)

\* C15 as stated: whatever the toggles and the cache are, a GET to
\* /cache-stats is answered 200 with the snapshot of the cache.
C15_StatsAlwaysAnswers200 ==
    [][ CacheStats =>
          /\ last'.status = 200
          /\ last'.contentType = "application/json"
          /\ DOMAIN last'.body = {"entries", "totalSizeMB", "avgEntrySizeKB",
                                  "maxSize", "expiryHours"}
      ]_vars

\* C16 as stated: when a prefetch stores its entry into a cache that holds
\* CACHE_MAX_SIZE entries or more, a cleanup pass runs before the store:
\* the cache afterwards is what cleanupCache leaves, with the entry set.
C16_StorePrecededByEviction ==
    [][ \A url \in DOMAIN inflight :
          (PrefetchDone(url, "ok") /\ Len(segmentCache) >= CACHE_MAX_SIZE) =>
              segmentCache' = mapSet(cleanupCache(segmentCache, now).cache, url,
                                     [url |-> url, data |-> originBody(url, now),
                                      headers |-> originResponseHeaders(url),
                                      timestamp |-> now])
      ]_vars

\* C17: as the janitor's timer keeps firing, whenever the cache holds more
\* than CACHE_MAX_SIZE entries it later holds at most CACHE_MAX_SIZE.
C17_OvershootIsTransient ==
    (Len(segmentCache) > CACHE_MAX_SIZE) ~> (Len(segmentCache) <= CACHE_MAX_SIZE)

\* The janitor's timer has fired on a cache over its capacity, with no
\* prefetch in flight, and has brought it back to CACHE_MAX_SIZE entries.
C17_Witness ==
    /\ last.op = "janitor"
    /\ Len(last.log) > 0
    /\ startsWith(last.log[1], "Cache size limit reached.")
    /\ inflight = EmptyBag
    /\ Len(segmentCache) <= CACHE_MAX_SIZE

\* C18: when a prefetch stores its entry for a URL the cache holds an entry
\* of, the cache afterwards holds as many entries as before and exactly one
\* of that URL, in the place of the old one, with the body and the headers
\* of this prefetch's response and the time of the store as its timestamp;
\* the other entries are as they were.
C18_StoreOverwrites ==
    [][ \A url \in DOMAIN inflight :
          (PrefetchDone(url, "ok") /\ mapHas(segmentCache, url)) =>
              /\ Len(segmentCache') = Len(segmentCache)
              /\ Cardinality({i \in 1..Len(segmentCache') :
                                 segmentCache'[i].url = url}) = 1
              /\ \A i \in 1..Len(segmentCache) :
                    segmentCache'[i] =
                        IF segmentCache[i].url = url
                        THEN [url |-> url, data |-> originBody(url, now),
                              headers |-> originResponseHeaders(url),
                              timestamp |-> now]
                        ELSE segmentCache[i]
      ]_vars

\* A prefetch has stored over the entry an earlier prefetch of the same URL
\* had stored: its entry is the newest, and it stands in the Map before an
\* entry of another URL that was stored after the first store.
C18_Witness ==
    /\ last.op = "prefetch-done"
    /\ last.content = originBody(last.url, now)
    /\ Len(segmentCache) >= 2
    /\ segmentCache[1] = [url |-> last.url, data |-> originBody(last.url, now),
                          headers |-> originResponseHeaders(last.url),
                          timestamp |-> now]
    /\ segmentCache[2].timestamp < now

\* C19: a lookup that returns an entry leaves the cache as it is, the
\* entry's timestamp and its place in the Map included, and so does the
\* segment request that answers from the cache, whose body is the entry's
\* data.
C19_HitLeavesCacheUnchanged ==
    [][ \A url \in SegmentUrlParams \ {Undefined} :
          /\ getCachedSegment(segmentCache, url, now, cacheDisabled).hit =>
                getCachedSegment(segmentCache, url, now, cacheDisabled).cache
                    = segmentCache
          /\ \A hp \in CacheHeaderParams :
                (TsRequest(url, hp) /\ last'.status = 200) =>
                    /\ last'.lookup = "unexpired"
                    /\ segmentCache' = segmentCache
                    /\ last'.body = mapGet(segmentCache, url).data
                    /\ last'.fetches = << >>
      ]_vars

\* A segment request has been answered from the cache at a time later than
\* the entry's timestamp, which is still the time of its store.
C19_Witness ==
    /\ last.op = "ts-request"
    /\ last.status = 200
    /\ last.lookup = "unexpired"
    /\ mapHas(segmentCache, last.url)
    /\ mapGet(segmentCache, last.url).timestamp < now
    /\ last.body = originBody(last.url, mapGet(segmentCache, last.url).timestamp)

\* C20: where at most MaxInflight prefetches await their fetch at the same
\* time, the cache never holds more than CACHE_MAX_SIZE + MaxInflight
\* entries.
C20_OvershootBounded ==
    bagSize(inflight) <= MaxInflight
        => Len(segmentCache) <= CACHE_MAX_SIZE + MaxInflight

\* The cache holds CACHE_MAX_SIZE + MaxInflight entries: MaxInflight
\* prefetches that were in flight together have stored beside the
\* CACHE_MAX_SIZE entries the cache held when they started.
C20_Witness ==
    /\ Len(segmentCache) = CACHE_MAX_SIZE + MaxInflight
    /\ inflight = EmptyBag
    /\ last.op = "prefetch-done"

=============================================================================
